---------------------------- MODULE Spec2Model ----------------------------
(***************************************************************************)
(* A model of grading_tool.py: the Streamlit script that loads a table of  *)
(* student marks (upload, URL or bundled sample), validates the selected   *)
(* marks column, classifies every row against eight grade thresholds and   *)
(* renders statistics, the graded table, its CSV export and a grade tally. *)
(*                                                                         *)
(* Marks and thresholds are modelled as integers (whole marks).  A cell of *)
(* a DataFrame is a record: a number, NaN (a missing value) or a string.   *)
(***************************************************************************)
EXTENDS Integers, Sequences, FiniteSets, TLC

VARIABLES
    pc,               \* position of the script run (or of a function harness)
    input,            \* the widgets' values of this run: input method, file, URL
    server,           \* what the remote server answers to this run's requests
    head_exception,   \* exception raised (and swallowed) inside the HEAD try block
    get_requests,     \* number of GET requests issued in this run
    downloaded_size,  \* load_file_from_url: bytes counted so far
    remaining,        \* bytes of the response body not yet yielded by iter_content
    content_bytes,    \* load_file_from_url: length of the accumulated content
    df,               \* the DataFrame of this run (NoDF before a load)
    original,         \* the DataFrame as the loader returned it (history)
    marks_column,     \* the selected marks column
    errors,           \* validate_data: errors
    warnings,         \* validate_data: warnings
    raised,           \* exception that ended the function or the run ("" if none)
    boundaries,       \* the eight slider values
    boundary_errors,  \* validate_grade_boundaries: errors
    csv_data,         \* sidebar export (df.to_csv), NoCsv before it exists
    stats,            \* tab1 summary statistics, NoStats before they exist
    csv,              \* tab2 export, NoCsv before it exists
    tally,            \* tab3 grade table and pass/fail summary, NoTally before
    page,             \* messages rendered on the page in this run, in order
    failed_before,    \* some earlier run of this session ended in a load failure
    mark,             \* harness: the mark handed to assign_grade
    grade             \* harness: the grade assign_grade returned

vars == <<pc, input, server, head_exception, get_requests, downloaded_size,
          remaining, content_bytes, df, original, marks_column, errors,
          warnings, raised, boundaries, boundary_errors, csv_data, stats, csv,
          tally, page, failed_before, mark, grade>>

---------------------------------------------------------------------------
(* Bounds of the model *)

\* largest number of data rows of an input table
MaxRows == 3
\* largest number of sliders moved away from their default in a boundary input
MaxMoved == 2
\* largest number of bytes by which a response body exceeds MAX_FILE_SIZE
MaxOver == 1

---------------------------------------------------------------------------
(* Cells *)

Num(n) == [k |-> "num", v |-> n, s |-> ""]
NaN == [k |-> "nan", v |-> 0, s |-> ""]
Str(x) == [k |-> "str", v |-> 0, s |-> x]

IsNum(c) == c.k = "num"
IsNaN(c) == c.k = "nan"

Range(q) == {q[i] : i \in DOMAIN q}

---------------------------------------------------------------------------
(* Grades and boundaries *)

\* the order of boundary_list and of the elif chain
GradeNames == <<"A", "A-", "B", "B-", "C", "C-", "D", "E">>
\* the reindex order of the tally
AllGrades == <<"A", "A-", "B", "B-", "C", "C-", "D", "E", "F">>

\* the sliders' default values
DefaultBoundaries ==
    [g \in Range(GradeNames) |->
        CASE g = "A" -> 90 [] g = "A-" -> 80 [] g = "B" -> 70 [] g = "B-" -> 60
          [] g = "C" -> 50 [] g = "C-" -> 40 [] g = "D" -> 30 [] g = "E" -> 20]

\* the sliders' range
SliderMin == 0
SliderMax == 100

\* Mutant of Ge: a missing mark meets every threshold
Ge_missing(m, t) == ~IsNum(m) \/ m.v >= t

\* Python's mark >= threshold: every comparison with NaN is False
Ge(m, t) == IsNum(m) /\ m.v >= t

\* Mutants of assign_grade: a strict comparison; B tested before A-
assign_grade_strict(m, b) ==
    IF IsNum(m) /\ m.v > b["A"] THEN "A"
    ELSE IF IsNum(m) /\ m.v > b["A-"] THEN "A-"
    ELSE IF IsNum(m) /\ m.v > b["B"] THEN "B"
    ELSE IF IsNum(m) /\ m.v > b["B-"] THEN "B-"
    ELSE IF IsNum(m) /\ m.v > b["C"] THEN "C"
    ELSE IF IsNum(m) /\ m.v > b["C-"] THEN "C-"
    ELSE IF IsNum(m) /\ m.v > b["D"] THEN "D"
    ELSE IF IsNum(m) /\ m.v > b["E"] THEN "E"
    ELSE "F"

assign_grade_swapped(m, b) ==
    IF Ge(m, b["A"]) THEN "A"
    ELSE IF Ge(m, b["B"]) THEN "B"
    ELSE IF Ge(m, b["A-"]) THEN "A-"
    ELSE IF Ge(m, b["B-"]) THEN "B-"
    ELSE IF Ge(m, b["C"]) THEN "C"
    ELSE IF Ge(m, b["C-"]) THEN "C-"
    ELSE IF Ge(m, b["D"]) THEN "D"
    ELSE IF Ge(m, b["E"]) THEN "E"
    ELSE "F"

\* Mutant of assign_grade: the A- comparison is turned around
assign_grade_flipped(m, b) ==
    IF Ge(m, b["A"]) THEN "A"
    ELSE IF IsNum(m) /\ m.v <= b["A-"] THEN "A-"
    ELSE IF Ge(m, b["B"]) THEN "B"
    ELSE IF Ge(m, b["B-"]) THEN "B-"
    ELSE IF Ge(m, b["C"]) THEN "C"
    ELSE IF Ge(m, b["C-"]) THEN "C-"
    ELSE IF Ge(m, b["D"]) THEN "D"
    ELSE IF Ge(m, b["E"]) THEN "E"
    ELSE "F"

\* assign_grade(mark), with the slider values it closes over as b
assign_grade(m, b) ==
    IF Ge(m, b["A"]) THEN "A"
    ELSE IF Ge(m, b["A-"]) THEN "A-"
    ELSE IF Ge(m, b["B"]) THEN "B"
    ELSE IF Ge(m, b["B-"]) THEN "B-"
    ELSE IF Ge(m, b["C"]) THEN "C"
    ELSE IF Ge(m, b["C-"]) THEN "C-"
    ELSE IF Ge(m, b["D"]) THEN "D"
    ELSE IF Ge(m, b["E"]) THEN "E"
    ELSE "F"

\* The message of one ordering error: the two grades and the two values
BoundaryError(cg, cv, ng, nv) ==
    [current_grade |-> cg, current_val |-> cv, next_grade |-> ng, next_val |-> nv]

\* the for loop of validate_grade_boundaries, from index i on
RECURSIVE BoundaryLoop(_, _, _)
BoundaryLoop(boundary_list, i, errs) ==
    IF i > Len(boundary_list) - 1 THEN errs
    ELSE LET current == boundary_list[i]
             next == boundary_list[i + 1]
         IN  BoundaryLoop(boundary_list, i + 1,
                IF current[2] <= next[2]
                THEN Append(errs, BoundaryError(current[1], current[2],
                                                next[1], next[2]))
                ELSE errs)

\* Mutant of validate_grade_boundaries: a tie is accepted
RECURSIVE BoundaryLoopTies(_, _, _)
BoundaryLoopTies(boundary_list, i, errs) ==
    IF i > Len(boundary_list) - 1 THEN errs
    ELSE LET current == boundary_list[i]
             next == boundary_list[i + 1]
         IN  BoundaryLoopTies(boundary_list, i + 1,
                IF current[2] < next[2]
                THEN Append(errs, BoundaryError(current[1], current[2],
                                                next[1], next[2]))
                ELSE errs)

validate_grade_boundaries_ties(b) ==
    BoundaryLoopTies([i \in 1..Len(GradeNames) |-> <<GradeNames[i], b[GradeNames[i]]>>],
                     1, <<>>)

\* validate_grade_boundaries(boundaries): boundary_list and the loop over it
validate_grade_boundaries(b) ==
    BoundaryLoop([i \in 1..Len(GradeNames) |-> <<GradeNames[i], b[GradeNames[i]]>>],
                 1, <<>>)

---------------------------------------------------------------------------
(* Files, tables and DataFrames *)

\* the numbers that occur as fields of the input tables
FieldNumbers == {-5, 78, 85, 92} \cup {100 + i : i \in 1..(MaxRows + 1)}

\* int(text), for the numeric literals of the input tables
IsIntText(t) == \E n \in FieldNumbers : ToString(n) = t
ParseInt(t) == CHOOSE n \in FieldNumbers : ToString(n) = t

NoDF == [loaded |-> FALSE, columns |-> <<>>, dtype |-> <<>>, data |-> <<>>, nrows |-> 0]

\* position of a column name in a header
IndexOf(header, c) == CHOOSE j \in DOMAIN header : header[j] = c

\* dtype inference of the parsers, for the fields of one column
InferDtype(fields) ==
    IF Len(fields) = 0 THEN "object"
    ELSE IF \A i \in DOMAIN fields : IsIntText(fields[i]) THEN "int64"
    ELSE IF \A i \in DOMAIN fields : fields[i] = "" \/ IsIntText(fields[i]) THEN "float64"
    ELSE "object"

\* one parsed cell; typed is TRUE for a spreadsheet, whose numeric cells stay
\* numbers in an object column
ParseCell(field, dtype, typed) ==
    IF field = "" THEN NaN
    ELSE IF dtype \in {"int64", "float64"} THEN Num(ParseInt(field))
    ELSE IF typed /\ IsIntText(field) THEN Num(ParseInt(field))
    ELSE Str(field)

\* the DataFrame a parser builds from a table of text fields
ParseTable(table, typed) ==
    LET cols == Range(table.header)
        fieldsOf(c) == [i \in DOMAIN table.rows |-> table.rows[i][IndexOf(table.header, c)]]
        dt == [c \in cols |-> InferDtype(fieldsOf(c))]
    IN  [loaded |-> TRUE,
         columns |-> table.header,
         dtype |-> dt,
         data |-> [c \in cols |-> [i \in DOMAIN table.rows |->
                      ParseCell(fieldsOf(c)[i], dt[c], typed)]],
         nrows |-> Len(table.rows)]

\* pd.read_csv / pd.read_excel on the content of a file: a DataFrame or an exception
read_csv(content) ==
    CASE content.kind = "csv" -> [raised |-> "", df |-> ParseTable(content.table, FALSE)]
      [] content.kind = "empty" -> [raised |-> "EmptyDataError", df |-> NoDF]
      [] content.kind = "missing" -> [raised |-> "FileNotFoundError", df |-> NoDF]
      [] OTHER -> [raised |-> "ParserError", df |-> NoDF]

read_excel(content) ==
    CASE content.kind = "xlsx" -> [raised |-> "", df |-> ParseTable(content.table, TRUE)]
      [] OTHER -> [raised |-> "BadZipFile", df |-> NoDF]

\* df.empty: some axis has length 0
Empty(d) == d.nrows = 0 \/ Len(d.columns) = 0

\* pd.api.types.is_numeric_dtype
is_numeric_dtype(dt) == dt \in {"int64", "float64"}

\* df.select_dtypes(include=np.number).columns
RECURSIVE SelectNumeric(_, _)
SelectNumeric(d, cols) ==
    IF cols = <<>> THEN <<>>
    ELSE (IF is_numeric_dtype(d.dtype[Head(cols)]) THEN <<Head(cols)>> ELSE <<>>)
         \o SelectNumeric(d, Tail(cols))

numeric_cols(d) == SelectNumeric(d, d.columns)

\* series.dropna()
NotMissing(c) == ~IsNaN(c)
dropna(series) == SelectSeq(series, NotMissing)

\* min and max of a non-empty sequence of numeric cells
SeqMin(series) == CHOOSE c \in Range(series) : \A o \in Range(series) : c.v <= o.v
SeqMax(series) == CHOOSE c \in Range(series) : \A o \in Range(series) : c.v >= o.v

\* text of one field of to_csv
FormatCell(c, dtype) ==
    CASE c.k = "nan" -> ""
      [] c.k = "str" -> c.s
      [] c.k = "num" -> IF dtype = "float64" THEN ToString(c.v) \o ".0" ELSE ToString(c.v)

NoCsv == [written |-> FALSE, header |-> <<>>, rows |-> <<>>]

\* df.to_csv(index=False): the header line, then one line of fields per row
to_csv(d) ==
    [written |-> TRUE,
     header |-> d.columns,
     rows |-> [i \in 1..d.nrows |->
                 [j \in DOMAIN d.columns |->
                     FormatCell(d.data[d.columns[j]][i], d.dtype[d.columns[j]])]]]

\* df[name] = values: replaces the column of that name, or appends a new one
SetColumn(d, name, values, dt) ==
    [loaded |-> TRUE,
     columns |-> IF name \in Range(d.columns) THEN d.columns ELSE Append(d.columns, name),
     dtype |-> [c \in Range(d.columns) \cup {name} |-> IF c = name THEN dt ELSE d.dtype[c]],
     data |-> [c \in Range(d.columns) \cup {name} |-> IF c = name THEN values ELSE d.data[c]],
     nrows |-> d.nrows]

---------------------------------------------------------------------------
(* validate_data *)

\* one message: its fixed text, the column it names, the number it cites
Msg(text, col, val) == [text |-> text, col |-> col, val |-> val]

EmptyError == Msg("The file is empty. Please upload a file with data.", "", 0)
NotFoundError(c) == Msg("Column not found in the file.", c, 0)
NonNumericError(c) == Msg("The column must contain numeric values only.", c, 0)
NoValidMarksError(c) == Msg("No valid marks found in column.", c, 0)
NegativeWarning(n) == Msg("Warning: Found negative marks", "", n)
Above100Warning(n) == Msg("Warning: Found marks above 100", "", n)

Report(r, e, w) == [raised |-> r, errors |-> e, warnings |-> w]

\* marks_data.min() < 0 and marks_data.max() > 100 raise TypeError when a
\* non-missing value of the column is a string
RangeCheckRaises(marks_data) == \E i \in DOMAIN marks_data : marks_data[i].k = "str"

\* validate_data(df, marks_column): the report it returns, or the exception it
\* raises (then nothing is returned)
validate_data(d, col) ==
    IF Empty(d) THEN Report("", <<EmptyError>>, <<>>)
    ELSE IF col \notin Range(d.columns) THEN Report("", <<NotFoundError(col)>>, <<>>)
    ELSE
      LET errors1 == IF ~is_numeric_dtype(d.dtype[col])
                     THEN <<NonNumericError(col)>> ELSE <<>>
          marks_data == dropna(d.data[col])
      IN  IF Len(marks_data) = 0
          THEN Report("", Append(errors1, NoValidMarksError(col)), <<>>)
          ELSE IF RangeCheckRaises(marks_data) THEN Report("TypeError", <<>>, <<>>)
          ELSE Report("", errors1,
                 (IF SeqMin(marks_data).v < 0
                  THEN <<NegativeWarning(SeqMin(marks_data).v)>> ELSE <<>>)
                 \o (IF SeqMax(marks_data).v > 100
                     THEN <<Above100Warning(SeqMax(marks_data).v)>> ELSE <<>>))

---------------------------------------------------------------------------
(* load_file_from_url *)

MAX_FILE_SIZE == 50 * 1024 * 1024
\* chunk_size of response.iter_content
ChunkSize == 8192

(* Python's string operations, on TLA+ strings *)

\* the substring of s from position i that is n characters long ("" when s
\* is too short for it)
Slice(s, i, n) == IF i >= 1 /\ n >= 1 /\ i + n - 1 <= Len(s) THEN SubSeq(s, i, i + n - 1) ELSE ""

\* sub in s
Contains(s, sub) == \E i \in 1..Len(s) : Slice(s, i, Len(sub)) = sub

\* s.endswith(suffix)
EndsWith(s, suffix) == Slice(s, Len(s) - Len(suffix) + 1, Len(suffix)) = suffix

\* s.replace(old, new): every occurrence of old, from the left
RECURSIVE ReplaceFrom(_, _, _, _)
ReplaceFrom(s, i, old, new) ==
    IF i > Len(s) THEN ""
    ELSE IF Slice(s, i, Len(old)) = old THEN new \o ReplaceFrom(s, i + Len(old), old, new)
    ELSE Slice(s, i, 1) \o ReplaceFrom(s, i + 1, old, new)

Replace(s, old, new) == ReplaceFrom(s, 1, old, new)

\* s.lower(), for ASCII letters
UpperCase == "ABCDEFGHIJKLMNOPQRSTUVWXYZ"
LowerCase == "abcdefghijklmnopqrstuvwxyz"

\* the upper-case letters, and the lower-case letter of each
UpperChars == {Slice(UpperCase, k, 1) : k \in 1..Len(UpperCase)}
LowerOf ==
    [c \in UpperChars |->
        Slice(LowerCase, CHOOSE k \in 1..Len(UpperCase) : Slice(UpperCase, k, 1) = c, 1)]

LowerChar(c) == IF c \in UpperChars THEN LowerOf[c] ELSE c

RECURSIVE LowerFrom(_, _)
LowerFrom(s, i) ==
    IF i > Len(s) THEN "" ELSE LowerChar(Slice(s, i, 1)) \o LowerFrom(s, i + 1)

Lower(s) == LowerFrom(s, 1)

\* the characters of the class [a-zA-Z0-9_-]
IdAlphabet == LowerCase \o UpperCase \o "0123456789_-"
IdChars == {Slice(IdAlphabet, k, 1) : k \in 1..Len(IdAlphabet)}

\* re.search(prefix + '([a-zA-Z0-9_-]+)', url): the positions where the
\* pattern matches, and group(1) of the leftmost match, as long as it can be
MatchStarts(url, prefix) ==
    {i \in 1..Len(url) : /\ Slice(url, i, Len(prefix)) = prefix
                         /\ Slice(url, i + Len(prefix), 1) \in IdChars}

MatchGroup(url, prefix) ==
    LET i     == CHOOSE k \in MatchStarts(url, prefix) :
                    \A l \in MatchStarts(url, prefix) : k <= l
        start == i + Len(prefix)
        last  == CHOOSE e \in start..Len(url) :
                    /\ \A k \in start..e : Slice(url, k, 1) \in IdChars
                    /\ (e = Len(url) \/ Slice(url, e + 1, 1) \notin IdChars)
    IN  Slice(url, start, last - start + 1)

---------------------------------------------------------------------------
(* The URLs *)

DriveShareUrl == "https://drive.google.com/file/d/FILEID/view"
DriveDirectUrl == "https://drive.google.com/uc?export=download&id=FILEID"
DriveOpenUrl == "https://drive.google.com/open?id=FILEID"
DriveFolderUrl == "https://drive.google.com/drive/my-drive"
DropboxUrl == "https://www.dropbox.com/s/abc/marks.csv?dl=0"
DropboxPlainUrl == "https://www.dropbox.com/s/abc/marks.csv"
DropboxRawUrl == "https://www.dropbox.com/s/abc/marks.csv?raw=1"
OneDriveUrl == "https://onedrive.live.com/view.aspx?resid=ABC"
CsvUrl == "https://example.com/marks.csv"
XlsxUrl == "https://example.com/marks.xlsx"
PlainUrl == "https://example.com/download"

UrlInputs == {DriveShareUrl, DriveOpenUrl, DriveFolderUrl, DropboxUrl, DropboxPlainUrl,
              DropboxRawUrl, OneDriveUrl, CsvUrl, XlsxUrl, PlainUrl}

\* lines 23-27: the patterns of a Google Drive link, up to the group
DrivePatterns == <<"/file/d/", "id=", "/open?id=">>

\* lines 29-33: the first pattern that matches gives the file id
RECURSIVE DriveLink(_, _)
DriveLink(url, k) ==
    IF k > Len(DrivePatterns) THEN url
    ELSE IF MatchStarts(url, DrivePatterns[k]) # {}
    THEN "https://drive.google.com/uc?export=download&id=" \o MatchGroup(url, DrivePatterns[k])
    ELSE DriveLink(url, k + 1)

\* convert_cloud_url: a Google Drive link is rewritten to its direct download
\* link, a Dropbox link gets dl=1, a OneDrive view link becomes a download
\* link, any other URL is returned as it is
convert_cloud_url(url) ==
    IF Contains(url, "drive.google.com") THEN DriveLink(url, 1)
    ELSE IF Contains(url, "dropbox.com") THEN
        IF Contains(url, "?")
        THEN (IF Contains(url, "dl=0") THEN Replace(url, "dl=0", "dl=1") ELSE url \o "&dl=1")
        ELSE url \o "?dl=1"
    ELSE IF Contains(url, "onedrive.live.com") \/ Contains(url, "1drv.ms") THEN
        IF Contains(url, "view.aspx") THEN Replace(url, "view.aspx", "download.aspx") ELSE url
    ELSE url

\* the substring and suffix tests of the loader
InDriveHost(url) == Contains(url, "drive.google.com")
EndsWithCsv(url) == EndsWith(url, ".csv")
EndsWithExcel(url) == EndsWith(url, ".xlsx") \/ EndsWith(url, ".xls")
ContainsCsv(url) == Contains(url, "csv")

HtmlType == "text/html; charset=utf-8"
CsvType == "text/csv"
ExcelType == "application/vnd.openxmlformats-officedocument.spreadsheetml.sheet"
BinaryType == "application/octet-stream"
MixedCaseCsvType == "Text/CSV; charset=UTF-8"
ContentTypes == {HtmlType, CsvType, ExcelType, BinaryType, MixedCaseCsvType}

\* content_bytes.startswith(b'<!DOCTYPE') or content_bytes.startswith(b'<html')
StartsWithHtml(content) == content.kind = "html"

\* lines 107-119: the parser chosen from the URL and the content type, applied
\* to the downloaded content: a DataFrame or the exception raised
ParseDownload(url, download_url, content_type, content) ==
    IF EndsWithCsv(url) \/ Contains(content_type, "text/csv") \/ ContainsCsv(download_url)
    THEN read_csv(content)
    ELSE IF \/ EndsWithExcel(url)
            \/ Contains(content_type, "spreadsheet") \/ Contains(content_type, "excel")
    THEN read_excel(content)
    ELSE IF read_csv(content).raised = "" THEN read_csv(content)
    ELSE IF read_excel(content).raised = "" THEN read_excel(content)
    ELSE [raised |-> "Could not parse file. Please ensure it's a valid CSV or Excel file.",
          df |-> NoDF]

\* the except clauses of load_file_from_url (lines 127-139): the message of the
\* exception the function raises for an exception e raised inside its try block
LoadException(e) ==
    CASE e = "Timeout" -> "Download timed out."
      [] e \in {"ConnectionError", "HTTPError"} -> "Failed to download file from URL."
      [] e = "EmptyDataError" -> "The file is empty or could not be read."
      [] OTHER -> "Failed to load file: " \o e

TooLargeError == "File is too large. Maximum allowed size is 50 MB."
ExceedsLimitError == "File exceeds 50 MB size limit."
DriveHtmlError == "Google Drive returned an HTML page instead of the file."
HtmlPageError == "Received an HTML page instead of a data file."
EmptyFileError == "File appears to be empty. Please check the file and try again."

\* lines 62-72: the exception raised inside the HEAD try block, which the bare
\* except swallows ("" when none is raised)
HeadException(srv) ==
    IF ~srv.head_ok THEN "RequestException"
    ELSE IF srv.content_length >= 0 /\ srv.content_length > MAX_FILE_SIZE THEN TooLargeError
    ELSE ""

---------------------------------------------------------------------------
(* Inputs *)

StudentName(i) ==
    CASE i = 1 -> "John" [] i = 2 -> "Jane" [] i = 3 -> "Bob"
      [] OTHER -> "Student" \o ToString(i)

\* the text of a marks field of an input table: a number or an empty field
MarkFields == {"-5", "78", "85", "92", ""}
FieldSeqs == UNION {[1..n -> MarkFields] : n \in 0..MaxRows}

Layouts == {"roster", "regrade", "grade_marks", "names"}

Header(layout) ==
    CASE layout = "roster" -> <<"Name", "Roll No", "Marks">>
      [] layout = "regrade" -> <<"Marks", "Grade">>
      [] layout = "grade_marks" -> <<"Name", "Grade">>
      [] layout = "names" -> <<"Name">>

Row(layout, i, field) ==
    CASE layout = "roster" -> <<StudentName(i), ToString(100 + i), field>>
      [] layout = "regrade" -> <<field, "P">>
      [] layout = "grade_marks" -> <<StudentName(i), field>>
      [] layout = "names" -> <<StudentName(i)>>

\* an input table: the header and one row per marks field
Table(layout, fs) ==
    [header |-> Header(layout), rows |-> [i \in DOMAIN fs |-> Row(layout, i, fs[i])]]

TableInputs == {Table(l, fs) : l \in Layouts, fs \in FieldSeqs}

\* the table of the quick-start guide (lines 527-531)
SampleTable == Table("roster", <<"85", "92", "78">>)
EmptyTable == [header |-> <<>>, rows |-> <<>>]

\* the content of a file or of a response body
Content(kind, table, size) == [kind |-> kind, table |-> table, size |-> size]
NoContent == Content("none", EmptyTable, 0)

\* size in bytes of the small files of the model
SmallSize == 100

NoServer == [head_ok |-> FALSE, content_length |-> -1, get |-> "none",
             content_type |-> "", body |-> NoContent, pieces |-> <<ChunkSize>>]

\* the tables served over HTTP
ServedTables == {SampleTable, Table("roster", <<>>), Table("roster", <<"85", "">>),
                 Table("names", <<"">>)}

SmallBodies ==
    {Content(k, t, SmallSize) : k \in {"csv", "xlsx"}, t \in ServedTables}
    \cup {Content("html", EmptyTable, SmallSize), Content("garbage", EmptyTable, SmallSize),
          Content("empty", EmptyTable, 0)}

\* bodies around the size limit: one byte under it, exactly it, and over it
LargeBodies ==
    {Content("csv", SampleTable, MAX_FILE_SIZE - 1 + n) : n \in 0..(MaxOver + 1)}

\* a body that goes on after the piece that crosses the limit
LongBody == Content("csv", SampleTable, MAX_FILE_SIZE + 3 * ChunkSize)

\* the body whose decoded blocks are DecodedPieces
DecodedBody == Content("csv", SampleTable, MAX_FILE_SIZE + 1)

\* the HEAD responses: failed, without Content-Length, with a small or a large one
HeadInputs == {<<FALSE, -1>>, <<TRUE, -1>>, <<TRUE, SmallSize>>, <<TRUE, MAX_FILE_SIZE + 1>>}

\* a server that sends the body with a Content-Length and no encoding:
\* iter_content yields it in pieces of chunk_size bytes.  pieces is the
\* sequence of the lengths of the pieces the response yields, repeated as
\* long as the body lasts; the last piece is what is left of the body
Server(h, g, ct, body) ==
    [head_ok |-> h[1], content_length |-> h[2], get |-> g, content_type |-> ct,
     body |-> body, pieces |-> <<ChunkSize>>]

\* the same server framing its body otherwise: iter_content yields the pieces ps
Framed(srv, ps) == [srv EXCEPT !.pieces = ps]

\* Transfer-Encoding: chunked, the server sending chunks of p bytes:
\* iter_content yields each chunk, cut into pieces of at most chunk_size bytes
RECURSIVE ChunkedPieces(_)
ChunkedPieces(p) ==
    IF p <= ChunkSize THEN <<p>> ELSE <<ChunkSize>> \o ChunkedPieces(p - ChunkSize)

\* the chunk lengths of the chunked responses of the model: under and over
\* chunk_size
SmallPiece == 40
ChunkedPiece == 5000
LongPiece == 20000

\* Content-Encoding: gzip: iter_content yields blocks of decoded bytes, of
\* unequal lengths that chunk_size does not bound, and body.size is the
\* decoded size.  These are the blocks of a body of 50 MB + 1 decoded bytes
DecodedPieces == <<8357190, 8428344, 8428344, 8428344, 8428344, 8428344, 1929891>>

RECURSIVE SumSeq(_)
SumSeq(q) == IF q = <<>> THEN 0 ELSE Head(q) + SumSeq(Tail(q))

\* the length of the piece that follows the first done bytes of the body
RECURSIVE PieceAt(_, _)
PieceAt(ps, offset) ==
    IF offset < Head(ps) THEN Head(ps) ELSE PieceAt(Tail(ps), offset - Head(ps))

NextPiece(srv, done) == PieceAt(srv.pieces, done % SumSeq(srv.pieces))

GetInputs == {"ok", "timeout", "connection_error", "http_error"}

\* every answer of a server to the loader, for small bodies, and the answers
\* that stream a body around the size limit
SmallServerInputs ==
    {Server(h, g, ct, b) : h \in HeadInputs, g \in GetInputs, ct \in ContentTypes,
                           b \in SmallBodies}
    \cup {Framed(Server(<<TRUE, SmallSize>>, "ok", CsvType, b), ps) :
              b \in SmallBodies, ps \in {ChunkedPieces(SmallPiece), DecodedPieces}}

LargeServerInputs ==
    {Server(h, "ok", CsvType, b) : h \in HeadInputs, b \in LargeBodies \cup {LongBody}}
    \cup {Framed(Server(<<TRUE, SmallSize>>, "ok", CsvType, b), ChunkedPieces(p)) :
              b \in LargeBodies \cup {LongBody}, p \in {ChunkedPiece, LongPiece}}
    \cup {Framed(Server(<<TRUE, SmallSize>>, "ok", CsvType, DecodedBody), DecodedPieces)}

\* the URLs from which the bodies around the size limit are loaded
LargeUrlInputs == {CsvUrl, DropboxUrl}

UrlInput(url) == [method |-> "url", url |-> url, ext |-> "", content |-> NoContent]
UploadInput(ext, content) == [method |-> "upload", url |-> "", ext |-> ext, content |-> content]
SampleInput(content) == [method |-> "sample", url |-> "", ext |-> ".csv", content |-> content]
NoInput == [method |-> "none", url |-> "", ext |-> "", content |-> NoContent]

---------------------------------------------------------------------------
(* State of a run *)

NoStats == [shown |-> FALSE, total_students |-> 0, highest |-> 0, lowest |-> 0]
NoTally == [shown |-> FALSE, grade_df |-> <<>>, pass_count |-> 0, fail_count |-> 0]

loadVars == <<head_exception, get_requests, downloaded_size, remaining, content_bytes>>
scriptVars == <<marks_column, errors, warnings, boundary_errors, csv_data, stats,
                csv, tally>>
harnessVars == <<mark, grade>>

\* the variables of a script run, as a rerun of the script starts
FreshRun ==
    /\ head_exception = ""
    /\ get_requests = 0
    /\ downloaded_size = 0
    /\ remaining = 0
    /\ content_bytes = 0
    /\ df = NoDF
    /\ original = NoDF
    /\ marks_column = ""
    /\ errors = <<>>
    /\ warnings = <<>>
    /\ raised = ""
    /\ boundary_errors = <<>>
    /\ csv_data = NoCsv
    /\ stats = NoStats
    /\ csv = NoCsv
    /\ tally = NoTally
    /\ page = <<>>

\* the same values, for the run that starts
ResetRun ==
    /\ head_exception' = ""
    /\ get_requests' = 0
    /\ downloaded_size' = 0
    /\ remaining' = 0
    /\ content_bytes' = 0
    /\ df' = NoDF
    /\ original' = NoDF
    /\ marks_column' = ""
    /\ errors' = <<>>
    /\ warnings' = <<>>
    /\ raised' = ""
    /\ boundary_errors' = <<>>
    /\ csv_data' = NoCsv
    /\ stats' = NoStats
    /\ csv' = NoCsv
    /\ tally' = NoTally
    /\ page' = <<>>

NoHarness ==
    /\ mark = NaN
    /\ grade = ""

---------------------------------------------------------------------------
(* load_file_from_url, step by step *)

\* Mutant of ExceedsLimit: the size check is dropped
ExceedsLimitNever(size) == FALSE

\* line 95: the streaming size check
ExceedsLimit(size) == size > MAX_FILE_SIZE

\* load_file_from_url raises: e is the exception raised inside its try block
UrlRaise(e) ==
    /\ pc' = "url_raised"
    /\ raised' = LoadException(e)
    /\ df' = NoDF

\* lines 55-72: the HEAD request; whatever is raised inside its try block is
\* swallowed by the bare except, and the GET follows
HeadRequest ==
    /\ pc = "head"
    /\ head_exception' = HeadException(server)
    /\ pc' = "get"
    /\ UNCHANGED <<input, server, get_requests, downloaded_size, remaining,
                   content_bytes, df, original, raised, boundaries, page,
                   failed_before>>
    /\ UNCHANGED <<scriptVars, harnessVars>>

\* lines 75-91: the GET request, raise_for_status and the Content-Type check
GetRequest ==
    /\ pc = "get"
    /\ get_requests' = get_requests + 1
    /\ IF server.get = "timeout" THEN
            UrlRaise("Timeout") /\ UNCHANGED <<downloaded_size, remaining, content_bytes>>
       ELSE IF server.get = "connection_error" THEN
            UrlRaise("ConnectionError") /\ UNCHANGED <<downloaded_size, remaining, content_bytes>>
       ELSE IF server.get = "http_error" THEN
            UrlRaise("HTTPError") /\ UNCHANGED <<downloaded_size, remaining, content_bytes>>
       ELSE \E content_type \in {Lower(server.content_type)} :
            IF Contains(content_type, "text/html") /\ InDriveHost(input.url) THEN
                UrlRaise(DriveHtmlError) /\ UNCHANGED <<downloaded_size, remaining, content_bytes>>
            ELSE /\ pc' = "stream"
                 /\ downloaded_size' = 0
                 /\ content_bytes' = 0
                 /\ remaining' = server.body.size
                 /\ UNCHANGED <<raised, df>>
    /\ UNCHANGED <<input, server, head_exception, original, boundaries, page,
                   failed_before>>
    /\ UNCHANGED <<scriptVars, harnessVars>>

\* lines 92-97: one iteration of the loop over response.iter_content: the
\* chunk is the next piece the response yields, the last one what is left
StreamChunk ==
    /\ pc = "stream"
    /\ remaining > 0
    /\ LET piece == NextPiece(server, downloaded_size)
           chunk == IF remaining < piece THEN remaining ELSE piece
       IN  /\ downloaded_size' = downloaded_size + chunk
           /\ remaining' = remaining - chunk
           /\ IF ExceedsLimit(downloaded_size + chunk)
              THEN UrlRaise(ExceedsLimitError) /\ UNCHANGED content_bytes
              ELSE /\ content_bytes' = content_bytes + chunk
                   /\ UNCHANGED <<pc, raised, df>>
    /\ UNCHANGED <<input, server, head_exception, get_requests, original,
                   boundaries, page, failed_before>>
    /\ UNCHANGED <<scriptVars, harnessVars>>

\* the content accumulated when the loop ends: the body, cut at content_bytes
Downloaded ==
    IF content_bytes = server.body.size THEN server.body
    ELSE Content("garbage", EmptyTable, content_bytes)

\* lines 99-125: the loop has ended; the HTML check, the parse, the empty check
FinishDownload ==
    /\ pc = "stream"
    /\ remaining = 0
    /\ \E download_url \in {convert_cloud_url(input.url)},
          content_type \in {Lower(server.content_type)} :
          \E r \in {ParseDownload(input.url, download_url, content_type, Downloaded)} :
              IF StartsWithHtml(Downloaded) THEN UrlRaise(HtmlPageError)
              ELSE IF r.raised # "" THEN UrlRaise(r.raised)
              ELSE IF Empty(r.df) THEN UrlRaise(EmptyFileError)
              ELSE /\ pc' = "url_returned"
                   /\ df' = r.df
                   /\ UNCHANGED raised
    /\ UNCHANGED <<input, server, original, boundaries, page, failed_before>>
    /\ UNCHANGED <<loadVars, scriptVars, harnessVars>>

LoadNext == HeadRequest \/ GetRequest \/ StreamChunk \/ FinishDownload

\* load_file_from_url as a function: any URL of the model against any server
LoadInit ==
    /\ pc = "head"
    /\ \/ input \in {UrlInput(u) : u \in UrlInputs} /\ server \in SmallServerInputs
       \/ input \in {UrlInput(u) : u \in LargeUrlInputs} /\ server \in LargeServerInputs
    /\ boundaries = DefaultBoundaries
    /\ failed_before = FALSE
    /\ FreshRun
    /\ NoHarness

SpecLoad == LoadInit /\ [][LoadNext]_vars

---------------------------------------------------------------------------
(* assign_grade and validate_grade_boundaries as functions *)

\* the values a slider is moved to: the defaults and the ends of its range
SliderLevels == Range(DefaultBoundaries) \cup {SliderMin, SliderMax}

\* the defaults with the sliders of P moved to the values of f
Moved(P, f) == [g \in Range(GradeNames) |-> IF g \in P THEN f[g] ELSE DefaultBoundaries[g]]

\* boundary settings: at most MaxMoved sliders moved, or all eight sliders equal
BoundaryInputs ==
    UNION {{Moved(P, f) : f \in [P -> SliderLevels]} :
              P \in {Q \in SUBSET Range(GradeNames) : Cardinality(Q) <= MaxMoved}}
    \cup {[g \in Range(GradeNames) |-> v] : v \in SliderLevels}

\* marks: every slider level, one mark under it, and marks outside [0,100]
MarkInputs ==
    {Num(v) : v \in SliderLevels} \cup {Num(v - 1) : v \in SliderLevels}
    \cup {Num(105), Num(85), NaN}

GradeInit ==
    /\ pc = "boundaries_set"
    /\ boundaries \in BoundaryInputs
    /\ input = NoInput
    /\ server = NoServer
    /\ failed_before = FALSE
    /\ FreshRun
    /\ NoHarness

\* assign_grade(mark) for one mark
ApplyAssignGrade ==
    /\ pc = "boundaries_set"
    /\ \E m \in MarkInputs :
          /\ mark' = m
          /\ grade' = assign_grade(m, boundaries)
    /\ pc' = "graded"
    /\ UNCHANGED <<input, server, df, original, raised, boundaries, page, failed_before>>
    /\ UNCHANGED <<loadVars, scriptVars>>

\* validate_grade_boundaries(boundaries)
ApplyValidateBoundaries ==
    /\ pc = "boundaries_set"
    /\ boundary_errors' = validate_grade_boundaries(boundaries)
    /\ pc' = "boundaries_validated"
    /\ UNCHANGED <<input, server, df, original, raised, boundaries, page, failed_before,
                   marks_column, errors, warnings, csv_data, stats, csv, tally>>
    /\ UNCHANGED <<loadVars, harnessVars>>

GradeNext == ApplyAssignGrade \/ ApplyValidateBoundaries

SpecGrade == GradeInit /\ [][GradeNext]_vars

---------------------------------------------------------------------------
(* validate_data as a function *)

\* marks fields of the tables handed to validate_data: also a non-numeric one
ValidateFields == MarkFields \cup {"AB"}

\* DataFrames as the two parsers build them, and one without rows or columns
DataFrameInputs ==
    {ParseTable(Table(l, fs), typed) :
        l \in Layouts, fs \in UNION {[1..n -> ValidateFields] : n \in 0..MaxRows},
        typed \in BOOLEAN}
    \cup {ParseTable(EmptyTable, FALSE)}

ColumnInputs == {"Marks", "Name", "Grade", "Roll No", "Score"}

ValidateInit ==
    /\ pc = "validate_data"
    /\ df \in DataFrameInputs
    /\ original = df
    /\ marks_column \in ColumnInputs
    /\ input = NoInput
    /\ server = NoServer
    /\ boundaries = DefaultBoundaries
    /\ failed_before = FALSE
    /\ head_exception = "" /\ get_requests = 0 /\ downloaded_size = 0
    /\ remaining = 0 /\ content_bytes = 0
    /\ errors = <<>> /\ warnings = <<>> /\ raised = "" /\ boundary_errors = <<>>
    /\ csv_data = NoCsv /\ stats = NoStats /\ csv = NoCsv /\ tally = NoTally
    /\ page = <<>>
    /\ NoHarness

\* validate_data(df, marks_column): it returns a report or raises
ApplyValidateData ==
    /\ pc = "validate_data"
    /\ LET r == validate_data(df, marks_column)
       IN  /\ raised' = r.raised
           /\ errors' = r.errors
           /\ warnings' = r.warnings
           /\ pc' = IF r.raised = "" THEN "validate_returned" ELSE "validate_raised"
    /\ UNCHANGED <<input, server, df, original, boundaries, page, failed_before,
                   marks_column, boundary_errors, csv_data, stats, csv, tally>>
    /\ UNCHANGED <<loadVars, harnessVars>>

ValidateNext == ApplyValidateData

SpecValidate == ValidateInit /\ [][ValidateNext]_vars

---------------------------------------------------------------------------
(* The script, run by run *)

PageMsg(level, text) == [level |-> level, text |-> text]

UnsupportedFormatMsg ==
    PageMsg("error", "Unsupported file format. Please upload a CSV or Excel file.")
NoNumericColumnsMsg == PageMsg("error", "No numeric columns found in the file.")
BoundaryIssuesMsg == PageMsg("warning", "Please adjust grade boundaries in the sidebar.")
WelcomeMsg == PageMsg("header", "Upload a file to get started!")
LoadedMsg == PageMsg("success", "File loaded successfully!")
DashboardMsg == PageMsg("header", "Results Dashboard")
SizeLimitMsg == PageMsg("warning", "File Size Limit: Maximum 50 MB for URL loading.")
CloudUrlsMsg == PageMsg("success", "Cloud storage URLs supported: Google Drive, Dropbox, OneDrive")
UsingSampleMsg == PageMsg("success", "Using sample data with 50 students.")
ConfigurationMsg == PageMsg("header", "Configuration")
BoundaryIssuesHeadMsg == PageMsg("error", "Grade Boundary Issues:")

\* one page message per message of a validator
RECURSIVE Shown(_, _)
Shown(level, msgs) ==
    IF msgs = <<>> THEN <<>>
    ELSE <<PageMsg(level, Head(msgs).text)>> \o Shown(level, Tail(msgs))

\* the positions where a run has ended and the session waits for the user
Ended == {"start", "welcome", "stopped", "failed", "crashed", "done"}
Loading == {"load", "head", "get", "stream", "url_returned", "url_raised"}

\* the file names and contents a user uploads
UploadInputs ==
    {UploadInput(".csv", Content("csv", t, SmallSize)) : t \in TableInputs}
    \cup {UploadInput(".xlsx", Content("xlsx", t, SmallSize)) : t \in ServedTables}
    \cup {UploadInput(".csv", Content("garbage", EmptyTable, SmallSize)),
          UploadInput(".csv", Content("empty", EmptyTable, 0)),
          UploadInput(".xlsx", Content("csv", SampleTable, SmallSize)),
          UploadInput(".CSV", Content("csv", SampleTable, SmallSize))}

\* student_data.csv beside the script, or no such file
SampleInputs ==
    {SampleInput(Content("csv", SampleTable, SmallSize)),
     SampleInput(Content("missing", EmptyTable, 0))}

\* the URL loads of a session and what the server answers to them
UrlLoads ==
    {<<UrlInput(CsvUrl), Server(<<TRUE, SmallSize>>, "ok", CsvType, b)>> :
        b \in {Content("csv", SampleTable, SmallSize),
               Content("csv", Table("roster", <<>>), SmallSize),
               Content("html", EmptyTable, SmallSize),
               Content("garbage", EmptyTable, SmallSize),
               Content("csv", SampleTable, MAX_FILE_SIZE + 1)}}
    \cup {<<UrlInput(CsvUrl),
             Framed(Server(<<TRUE, SmallSize>>, "ok", CsvType,
                           Content("csv", SampleTable, SmallSize)),
                    ChunkedPieces(SmallPiece))>>}
    \cup {<<UrlInput(CsvUrl), Server(<<FALSE, -1>>, g, CsvType,
                                     Content("csv", SampleTable, SmallSize))>> :
             g \in {"timeout", "http_error"}}
    \cup {<<UrlInput(DriveShareUrl), Server(<<TRUE, -1>>, "ok", ct,
                                            Content(k, SampleTable, SmallSize))>> :
             ct \in {HtmlType, BinaryType}, k \in {"csv", "xlsx"}}
    \cup {<<UrlInput(u), Server(<<TRUE, -1>>, "ok", BinaryType,
                                Content("xlsx", SampleTable, SmallSize))>> :
             u \in {DropboxRawUrl, OneDriveUrl}}

\* the URL input method with its text field left empty
EmptyUrlInput == UrlInput("")

\* what the user does before a rerun: the input and the server behind a URL
RunInputs ==
    {<<i, NoServer>> : i \in {NoInput, EmptyUrlInput} \cup SampleInputs \cup UploadInputs}
    \cup UrlLoads

\* the slider settings of a session
SliderInputs ==
    {DefaultBoundaries,
     [g \in Range(GradeNames) |-> 50],
     Moved({"A-"}, [g \in {"A-"} |-> 100]),
     Moved({"A"}, [g \in {"A"} |-> 100]),
     Moved({"E"}, [g \in {"E"} |-> 0])}

\* lines 368-377: the except clause of the script: the message, the tips, st.stop()
ExceptMessages(e) ==
    <<PageMsg("error", "An error occurred: " \o e), PageMsg("error", "Troubleshooting tips")>>

ExceptHandler(e) ==
    /\ page' = page \o ExceptMessages(e)
    /\ raised' = e
    /\ pc' = "failed"

\* a load failure: the load raised, the upload was refused, or nothing was parsed
LoadFailure ==
    \/ pc = "failed" /\ ~df.loaded
    \/ pc = "stopped" /\ (~df.loaded \/ Empty(df))

\* a user action on a widget: the run that ended is discarded with all it
\* rendered, and the script reruns from the top with fresh variables
Rerun ==
    /\ pc \in Ended \ {"start"}
    /\ pc' = "rerun"
    /\ failed_before' = (failed_before \/ LoadFailure)
    /\ input' = NoInput
    /\ server' = NoServer
    /\ boundaries' = DefaultBoundaries
    /\ ResetRun
    /\ UNCHANGED harnessVars

\* lines 211-247: what the branch of the chosen input method renders: the size
\* warning of the URL method, its success message once a URL is typed, the
\* success message of the sample data; nothing for the file uploader
InputMessages(i) ==
    IF i.method = "url"
    THEN <<SizeLimitMsg>> \o (IF i.url # "" THEN <<CloudUrlsMsg>> ELSE <<>>)
    ELSE IF i.method = "sample" THEN <<UsingSampleMsg>>
    ELSE <<>>

\* line 249: uploaded_file is not None or file_url or use_sample
HasInput(i) ==
    \/ i.method = "upload"
    \/ i.method = "url" /\ i.url # ""
    \/ i.method = "sample"

\* lines 201-249, 504-505: the script reads the widgets: the input method, the
\* file or URL and the sliders as the user left them; without an input it
\* renders the quick-start page
ReadWidgets ==
    /\ pc \in {"start", "rerun"}
    /\ \E run \in RunInputs, b \in SliderInputs :
          /\ input' = run[1]
          /\ server' = run[2]
          /\ boundaries' = b
          /\ IF HasInput(run[1])
             THEN pc' = "load" /\ page' = InputMessages(run[1])
             ELSE pc' = "welcome" /\ page' = Append(InputMessages(run[1]), WelcomeMsg)
    /\ UNCHANGED <<failed_before, df, original, raised>>
    /\ UNCHANGED <<loadVars, scriptVars, harnessVars>>

\* the DataFrame a loader returned: line 256, 260 or 270
Loaded(d) ==
    /\ df' = d
    /\ original' = d
    /\ page' = Append(page, LoadedMsg)
    /\ pc' = "columns"
    /\ UNCHANGED raised

\* lines 253-270: the sample file and the uploaded file are parsed here, a URL
\* is handed to load_file_from_url
Load ==
    /\ pc = "load"
    /\ IF input.method = "url" THEN
            pc' = "head" /\ UNCHANGED <<df, original, page, raised>>
       ELSE IF input.method = "upload" /\ input.ext \notin {".csv", ".xlsx", ".xls"} THEN
            /\ page' = Append(page, UnsupportedFormatMsg)
            /\ pc' = "stopped"
            /\ UNCHANGED <<df, original, raised>>
       ELSE LET r == IF input.ext = ".csv" THEN read_csv(input.content)
                     ELSE read_excel(input.content)
            IN  IF r.raised # ""
                THEN ExceptHandler(r.raised) /\ UNCHANGED <<df, original>>
                ELSE Loaded(r.df)
    /\ UNCHANGED <<input, server, boundaries, failed_before>>
    /\ UNCHANGED <<loadVars, scriptVars, harnessVars>>

\* line 259-260: load_file_from_url returned
UrlLoaded ==
    /\ pc = "url_returned"
    /\ Loaded(df)
    /\ UNCHANGED <<input, server, boundaries, failed_before>>
    /\ UNCHANGED <<loadVars, scriptVars, harnessVars>>

\* Mutant of UrlFailed: the download is tried again
UrlFailedRetry ==
    /\ pc = "url_raised"
    /\ pc' = "head"
    /\ UNCHANGED <<input, server, boundaries, failed_before, df, original, raised, page>>
    /\ UNCHANGED <<loadVars, scriptVars, harnessVars>>

\* line 259, 368-377: load_file_from_url raised
UrlFailed ==
    /\ pc = "url_raised"
    /\ ExceptHandler(raised)
    /\ UNCHANGED <<input, server, boundaries, failed_before, df, original>>
    /\ UNCHANGED <<loadVars, scriptVars, harnessVars>>

\* lines 272-290: the preview, the sidebar header, the numeric columns and
\* the selectbox
SelectColumn ==
    /\ pc = "columns"
    /\ IF numeric_cols(df) = <<>>
       THEN /\ page' = page \o <<ConfigurationMsg, NoNumericColumnsMsg>>
            /\ pc' = "stopped"
            /\ UNCHANGED marks_column
       ELSE /\ \E c \in Range(numeric_cols(df)) : marks_column' = c
            /\ pc' = "validate"
            /\ page' = Append(page, ConfigurationMsg)
    /\ UNCHANGED <<input, server, boundaries, failed_before, df, original, raised,
                   errors, warnings, boundary_errors, csv_data, stats, csv, tally>>
    /\ UNCHANGED <<loadVars, harnessVars>>

\* lines 292-302: validate_data; its errors stop the run, its warnings do not
Validate ==
    /\ pc = "validate"
    /\ LET r == validate_data(df, marks_column)
       IN  IF r.raised # "" THEN
                ExceptHandler(r.raised) /\ UNCHANGED <<errors, warnings>>
           ELSE /\ errors' = r.errors
                /\ warnings' = r.warnings
                /\ UNCHANGED raised
                /\ IF r.errors # <<>>
                   THEN /\ page' = page \o Shown("error", r.errors)
                        /\ pc' = "stopped"
                   ELSE /\ page' = page \o Shown("warning", r.warnings)
                        /\ pc' = "grading"
    /\ UNCHANGED <<input, server, boundaries, failed_before, df, original,
                   marks_column, boundary_errors, csv_data, stats, csv, tally>>
    /\ UNCHANGED <<loadVars, harnessVars>>

\* df[marks_column].apply(assign_grade): the Grade of every row
GradeSeries(d, col, b) ==
    [i \in 1..d.nrows |-> Str(assign_grade(d.data[col][i], b))]

\* assign_grade raises TypeError when it compares a string with a threshold
ApplyRaises(d, col) == \E i \in 1..d.nrows : d.data[col][i].k = "str"

\* line 355: df['Grade'] = df[marks_column].apply(assign_grade)
AssignGradeColumn(d, col, b) == SetColumn(d, "Grade", GradeSeries(d, col, b), "object")

\* lines 337-341: the sidebar heading and one sidebar error per boundary error,
\* then the warning; nothing when the boundaries are in order
BoundaryMessages(errs) ==
    IF errs = <<>> THEN <<>>
    ELSE <<BoundaryIssuesHeadMsg>>
         \o Shown("error", [i \in DOMAIN errs |-> [text |-> "Grade boundary must be greater"]])
         \o <<BoundaryIssuesMsg>>

\* lines 304-366: the sliders, validate_grade_boundaries (its errors are only
\* displayed), the Grade column and the sidebar export
Grading ==
    /\ pc = "grading"
    /\ boundary_errors' = validate_grade_boundaries(boundaries)
    /\ IF ApplyRaises(df, marks_column) THEN
            /\ page' = page \o BoundaryMessages(validate_grade_boundaries(boundaries))
                            \o ExceptMessages("TypeError")
            /\ raised' = "TypeError"
            /\ pc' = "failed"
            /\ UNCHANGED <<df, csv_data>>
       ELSE /\ page' = page \o BoundaryMessages(validate_grade_boundaries(boundaries))
            /\ df' = AssignGradeColumn(df, marks_column, boundaries)
            /\ csv_data' = to_csv(AssignGradeColumn(df, marks_column, boundaries))
            /\ pc' = "tab1"
            /\ UNCHANGED raised
    /\ UNCHANGED <<input, server, boundaries, failed_before, original, marks_column,
                   errors, warnings, stats, csv, tally>>
    /\ UNCHANGED <<loadVars, harnessVars>>

\* lines 379-427: the dashboard header, the histogram and the summary
\* statistics of the non-missing marks (mean, median and standard deviation
\* are real numbers and are left out); data.mean() raises TypeError on strings,
\* outside the try block, and the run ends with the exception on the page
Tab1 ==
    /\ pc = "tab1"
    /\ LET data == dropna(df.data[marks_column])
       IN  IF \E i \in DOMAIN data : data[i].k = "str"
           THEN /\ raised' = "TypeError"
                /\ page' = page \o <<DashboardMsg, PageMsg("exception", "TypeError")>>
                /\ pc' = "crashed"
                /\ UNCHANGED stats
           ELSE /\ stats' = [shown |-> TRUE,
                             total_students |-> Len(data),
                             highest |-> SeqMax(data).v,
                             lowest |-> SeqMin(data).v]
                /\ page' = Append(page, DashboardMsg)
                /\ pc' = "tab2"
                /\ UNCHANGED raised
    /\ UNCHANGED <<input, server, boundaries, failed_before, df, original, marks_column,
                   errors, warnings, boundary_errors, csv_data, csv, tally>>
    /\ UNCHANGED <<loadVars, harnessVars>>

\* lines 429-459: the graded table and its export
Tab2 ==
    /\ pc = "tab2"
    /\ csv' = to_csv(df)
    /\ pc' = "tab3"
    /\ UNCHANGED <<input, server, boundaries, failed_before, df, original, marks_column,
                   errors, warnings, raised, boundary_errors, csv_data, stats, tally, page>>
    /\ UNCHANGED <<loadVars, harnessVars>>

\* series.value_counts(): the count of every value that occurs
value_counts(series) ==
    [g \in {series[i].s : i \in DOMAIN series} |->
        Cardinality({i \in DOMAIN series : series[i].s = g})]

\* Mutant of reindex: only the labels that have a count are kept
reindex_present(counts, index, fill_value) ==
    LET keep == SelectSeq(index, LAMBDA g : g \in DOMAIN counts)
    IN  [i \in DOMAIN keep |-> [label |-> keep[i], count |-> counts[keep[i]]]]

\* counts.reindex(index, fill_value=...): one entry per label of index, in its order
reindex(counts, index, fill_value) ==
    [i \in DOMAIN index |->
        [label |-> index[i],
         count |-> IF index[i] \in DOMAIN counts THEN counts[index[i]] ELSE fill_value]]

\* float64 arithmetic, as numpy does it on grade_counts.values / len(df) * 100.
\* A positive float64 is [m, e]: the integer written by the 53 bits of m (most
\* significant first, m[1] = 1) times 2^e.  Bit strings stand for integers.
MantissaBits == 53

RECURSIVE BitsOf(_)
BitsOf(k) == IF k = 0 THEN <<>> ELSE Append(BitsOf(k \div 2), k % 2)

RECURSIVE IntOf(_)
IntOf(bits) ==
    IF bits = <<>> THEN 0
    ELSE 2 * IntOf(SubSeq(bits, 1, Len(bits) - 1)) + bits[Len(bits)]

RECURSIVE Increment(_)
Increment(bits) ==
    IF bits = <<>> THEN <<1>>
    ELSE IF bits[Len(bits)] = 0 THEN [bits EXCEPT ![Len(bits)] = 1]
    ELSE Append(Increment(SubSeq(bits, 1, Len(bits) - 1)), 0)

AnyBit(bits, from) == \E k \in from..Len(bits) : bits[k] = 1

\* the float64 nearest to bits * 2^e (ties to the even mantissa); sticky says
\* that the exact value has further nonzero bits below those of bits
RoundBits(bits, e, sticky) ==
    IF Len(bits) <= MantissaBits
    THEN [m |-> bits \o [k \in 1..(MantissaBits - Len(bits)) |-> 0],
          e |-> e - (MantissaBits - Len(bits))]
    ELSE LET t    == Len(bits) - MantissaBits
             kept == SubSeq(bits, 1, MantissaBits)
             up   == /\ bits[MantissaBits + 1] = 1
                     /\ (sticky \/ AnyBit(bits, MantissaBits + 2) \/ kept[MantissaBits] = 1)
             r    == IF up THEN Increment(kept) ELSE kept
         IN  IF Len(r) > MantissaBits
             THEN [m |-> SubSeq(r, 1, MantissaBits), e |-> e + t + 1]
             ELSE [m |-> r, e |-> e + t]

\* long division: the first 54 significant bits of c / n and what is left
RECURSIVE DivBits(_, _, _, _)
DivBits(bits, r, n, e) ==
    IF Len(bits) > MantissaBits THEN [bits |-> bits, e |-> e, sticky |-> r # 0]
    ELSE LET b == IF 2 * r >= n THEN 1 ELSE 0
         IN  DivBits(IF bits = <<>> /\ b = 0 THEN <<>> ELSE Append(bits, b),
                     2 * r - b * n, n, e - 1)

\* c / n in float64, for integers c, n > 0
FloatDiv(c, n) ==
    LET q == DivBits(BitsOf(c \div n), c % n, n, 0)
    IN  RoundBits(q.bits, q.e, q.sticky)

\* bits * k + carry, for a small integer k: twelve bits at a time, from the
\* least significant ones
LimbBits == 12

ZeroPadded(bits, w) == [k \in 1..(w - Len(bits)) |-> 0] \o bits

RECURSIVE MulBits(_, _, _)
MulBits(bits, k, carry) ==
    IF bits = <<>> THEN BitsOf(carry)
    ELSE LET w == IF Len(bits) < LimbBits THEN Len(bits) ELSE LimbBits
             x == IntOf(SubSeq(bits, Len(bits) - w + 1, Len(bits))) * k + carry
         IN  MulBits(SubSeq(bits, 1, Len(bits) - w), k, x \div (2 ^ w))
             \o ZeroPadded(BitsOf(x % (2 ^ w)), w)

\* f * k in float64, for a small integer k > 0
FloatMul(f, k) == RoundBits(MulBits(f.m, k, 0), f.e, FALSE)

\* numpy.rint(f), for f < 2^31: the nearest integer, ties to the even one
Rint(f) ==
    LET n == MantissaBits + f.e
    IN  IF n < 0 THEN 0
        ELSE IF n = 0 THEN (IF AnyBit(f.m, 2) THEN 1 ELSE 0)
        ELSE IF n >= MantissaBits THEN IntOf(f.m \o [k \in 1..(n - MantissaBits) |-> 0])
        ELSE LET ip == IntOf(SubSeq(f.m, 1, n))
             IN  IF f.m[n + 1] = 1 /\ (AnyBit(f.m, n + 2) \/ ip % 2 = 1)
                 THEN ip + 1 ELSE ip

\* line 471: (grade_counts.values / len(df) * 100).round(2), in hundredths of
\* a percent: the quotient and the product are float64, and round(2)
\* multiplies by 100 in float64 before it takes rint
Percentage(count, n) ==
    IF count = 0 THEN 0
    ELSE Rint(FloatMul(FloatMul(FloatDiv(count, n), 100), 100))

\* lines 461-485: the grade table and the pass/fail summary
Tab3 ==
    /\ pc = "tab3"
    /\ LET grade_counts == reindex(value_counts(df.data["Grade"]), AllGrades, 0)
       IN  tally' =
             [shown |-> TRUE,
              grade_df |-> [i \in DOMAIN grade_counts |->
                              [Grade |-> grade_counts[i].label,
                               Count |-> grade_counts[i].count,
                               Percentage |-> Percentage(grade_counts[i].count, df.nrows)]],
              pass_count |-> Cardinality({i \in 1..df.nrows : df.data["Grade"][i].s # "F"}),
              fail_count |-> Cardinality({i \in 1..df.nrows : df.data["Grade"][i].s = "F"})]
    /\ pc' = "done"
    /\ UNCHANGED <<input, server, boundaries, failed_before, df, original, marks_column,
                   errors, warnings, raised, boundary_errors, csv_data, stats, csv, page>>
    /\ UNCHANGED <<loadVars, harnessVars>>

Init ==
    /\ pc = "start"
    /\ input = NoInput
    /\ server = NoServer
    /\ boundaries = DefaultBoundaries
    /\ failed_before = FALSE
    /\ FreshRun
    /\ NoHarness

Next ==
    \/ Rerun
    \/ ReadWidgets
    \/ Load
    \/ HeadRequest
    \/ GetRequest
    \/ StreamChunk
    \/ FinishDownload
    \/ UrlLoaded
    \/ UrlFailed
    \/ SelectColumn
    \/ Validate
    \/ Grading
    \/ Tab1
    \/ Tab2
    \/ Tab3

Spec == Init /\ [][Next]_vars

---------------------------------------------------------------------------
(* Properties of the classifier and of the boundary validator (SpecGrade) *)

\* A > A- > B > B- > C > C- > D > E
StrictlyDescending(b) ==
    \A i \in 1..(Len(GradeNames) - 1) : b[GradeNames[i]] > b[GradeNames[i + 1]]

\* the positions, in the fixed order, of the thresholds a mark meets
MetBy(m, b) == {i \in DOMAIN GradeNames : m >= b[GradeNames[i]]}
Least(S) == CHOOSE i \in S : \A j \in S : i <= j

\* C1: for every numeric mark and every setting of the eight thresholds, also a
\* setting that is not strictly descending and a mark outside [0,100],
\* assign_grade returns one of the nine grades: the first grade in the order
\* A, A-, B, B-, C, C-, D, E whose threshold the mark meets or exceeds, or F
\* when it meets none; that holds whether or not validate_grade_boundaries
\* reports errors for the setting.
C1_FirstMatchingGrade ==
    (pc = "graded" /\ IsNum(mark)) =>
        /\ grade \in Range(AllGrades)
        /\ IF MetBy(mark.v, boundaries) = {} THEN grade = "F"
           ELSE grade = GradeNames[Least(MetBy(mark.v, boundaries))]

\* a mark graded under boundaries the validator rejects (A- above A): it
\* misses both and gets the first grade it meets, B
C1_Witness ==
    /\ pc = "graded"
    /\ validate_grade_boundaries(boundaries) # <<>>
    /\ boundaries["A-"] > boundaries["A"]
    /\ mark = Num(85)
    /\ grade = "B"

\* C2: boundary inclusivity: under strictly descending boundaries a mark equal
\* to the threshold of grade X is classified as X, for each of the eight
\* named thresholds.
C2_BoundaryInclusive ==
    (pc = "graded" /\ IsNum(mark) /\ StrictlyDescending(boundaries)) =>
        \A i \in DOMAIN GradeNames :
            mark.v = boundaries[GradeNames[i]] => grade = GradeNames[i]

\* a mark equal to a moved C- threshold, graded C-
C2_Witness ==
    /\ pc = "graded"
    /\ StrictlyDescending(boundaries)
    /\ boundaries # DefaultBoundaries
    /\ IsNum(mark)
    /\ mark.v = boundaries["C-"]
    /\ grade = "C-"

\* the adjacent pairs, by the position of their earlier grade, whose later
\* value is not strictly less than the earlier one
ViolatingPairs(b) ==
    {i \in 1..(Len(GradeNames) - 1) : b[GradeNames[i + 1]] >= b[GradeNames[i]]}
\* the k-th smallest element of a set of numbers
Kth(S, k) == CHOOSE i \in S : Cardinality({j \in S : j < i}) = k - 1

\* C3: validate_grade_boundaries returns an empty list exactly when the eight
\* thresholds are strictly descending; otherwise one error per adjacent pair
\* whose later value is not strictly less than the earlier one (an inversion
\* or a tie), in the fixed pair order and without stopping at the first, each
\* naming both grades and both values; eight equal thresholds give seven errors.
C3_BoundaryErrors ==
    pc = "boundaries_validated" =>
        /\ (boundary_errors = <<>>) <=> StrictlyDescending(boundaries)
        /\ Len(boundary_errors) = Cardinality(ViolatingPairs(boundaries))
        /\ \A k \in DOMAIN boundary_errors :
              LET i == Kth(ViolatingPairs(boundaries), k)
              IN  boundary_errors[k] =
                     BoundaryError(GradeNames[i], boundaries[GradeNames[i]],
                                   GradeNames[i + 1], boundaries[GradeNames[i + 1]])
        /\ (\A g \in Range(GradeNames) : boundaries[g] = boundaries["A"])
              => Len(boundary_errors) = 7

\* eight equal thresholds, seven errors reported
C3_Witness ==
    /\ pc = "boundaries_validated"
    /\ \A g \in Range(GradeNames) : boundaries[g] = 50
    /\ Len(boundary_errors) = 7

---------------------------------------------------------------------------
(* Properties of load_file_from_url (SpecLoad) *)

\* load_file_from_url has returned or raised
LoadEnded == pc \in {"url_returned", "url_raised"}

\* C5: oversized downloads are rejected, never truncated: when the body the
\* GET response streams is larger than 50 MB, load_file_from_url ends in a
\* failure and returns no dataset, whatever the HEAD request returned or
\* whether it failed, and no more than 50 MB are ever accumulated; a body of
\* at most 50 MB is never rejected by the streaming size check.  The check
\* rejects the download at the first piece that takes the count over 50 MB,
\* also when more of the body would follow, whatever the lengths of the
\* pieces the response yields.  The load always goes on until it has
\* returned or raised.
C5_OversizedRejected ==
    /\ content_bytes <= 50 * 1024 * 1024
    /\ (pc = "url_returned" => server.body.size <= 50 * 1024 * 1024)
    /\ (LoadEnded /\ server.body.size > 50 * 1024 * 1024)
          => /\ pc = "url_raised"
             /\ df = NoDF
             /\ server.get = "ok" => raised = "Failed to load file: " \o ExceedsLimitError
    /\ (pc = "url_raised" /\ raised = "Failed to load file: " \o ExceedsLimitError)
          => /\ server.body.size > 50 * 1024 * 1024
             /\ content_bytes <= 50 * 1024 * 1024
             /\ downloaded_size > 50 * 1024 * 1024
             /\ downloaded_size + remaining = server.body.size
    /\ (pc = "stream" /\ downloaded_size > 50 * 1024 * 1024) => FALSE
    /\ (LoadEnded /\ server.get = "ok" /\ server.body.kind = "csv"
        /\ server.body.table = SampleTable /\ server.body.size <= 50 * 1024 * 1024
        /\ server.content_type = CsvType)
          => pc = "url_returned"
    /\ (pc \in {"head", "get", "stream"} => ENABLED LoadNext)

\* a body of 50 MB and three more pieces, rejected by the streaming check at
\* the first piece over the limit, with two pieces still to come, although
\* the HEAD response declared a small Content-Length
C5_Witness ==
    /\ pc = "url_raised"
    /\ server.head_ok /\ server.content_length = SmallSize
    /\ server.body = LongBody
    /\ server.pieces = <<ChunkSize>>
    /\ content_bytes = 50 * 1024 * 1024
    /\ downloaded_size = 50 * 1024 * 1024 + ChunkSize
    /\ remaining = 2 * ChunkSize
    /\ df = NoDF
    /\ raised = "Failed to load file: " \o ExceedsLimitError

---------------------------------------------------------------------------
(* Properties of validate_data (SpecValidate) *)

\* C6: validate_data returns a report for every dataset and column name and
\* never raises; the report holds exactly the 'empty' error and no warnings
\* for a dataset without rows, exactly the 'column not found' error and no
\* warnings for an absent column; otherwise the 'non-numeric column' error is
\* present iff the column is not of a numeric type, and the 'no valid marks'
\* error iff no non-missing value remains.
C6_ValidateDataTotal ==
    pc \in {"validate_returned", "validate_raised"} =>
        /\ pc = "validate_returned"
        /\ raised = ""
        /\ Empty(df) => (errors = <<EmptyError>> /\ warnings = <<>>)
        /\ (~Empty(df) /\ marks_column \notin Range(df.columns))
              => (errors = <<NotFoundError(marks_column)>> /\ warnings = <<>>)
        /\ (~Empty(df) /\ marks_column \in Range(df.columns))
              => /\ (NonNumericError(marks_column) \in Range(errors))
                        <=> ~is_numeric_dtype(df.dtype[marks_column])
                 /\ (NoValidMarksError(marks_column) \in Range(errors))
                        <=> (\A i \in 1..df.nrows : IsNaN(df.data[marks_column][i]))

---------------------------------------------------------------------------
(* Properties of the script (Spec) *)

\* the Grade column of df, as grade symbols
Grades(d) == [i \in 1..d.nrows |-> d.data["Grade"][i].s]

\* the run has assigned the Grade column
Graded == pc \in {"tab1", "tab2", "tab3", "done", "crashed"}

HasError(p) == \E i \in DOMAIN p : p[i].level = "error"

\* C4: in a run where a dataset was loaded and a marks column selected, grades
\* are assigned, and the results, the tally and the export produced, if and
\* only if validate_data returned no errors: an error halts the run before
\* assign_grade is applied to any row, while warnings and boundary-ordering
\* errors are only displayed.
C4_GradedIffNoErrors ==
    /\ (pc \in Ended /\ marks_column # "")
          => ((errors = <<>>)
                <=> (/\ df # original
                     /\ csv_data.written
                     /\ stats.shown
                     /\ csv.written
                     /\ tally.shown))
    /\ errors # <<>> => (df = original /\ ~csv_data.written /\ pc = "stopped")

\* C7: every load failure (timeout, non-2xx response, oversized payload, HTML
\* page, unparseable content, empty parsed result, unsupported upload type)
\* ends the run with an error message on the page and with no classified
\* dataset, statistics or export; the download is requested once, never again
\* in the same run; a load never hangs; and the session then accepts a new
\* user action.
FailingLoad ==
    \/ /\ input.method = "url" /\ input.url # ""
       /\ \/ server.get \in {"timeout", "connection_error", "http_error"}
          \/ server.body.size > MAX_FILE_SIZE
          \/ server.body.kind \in {"html", "garbage", "empty"}
          \/ server.content_type = HtmlType /\ InDriveHost(input.url)
          \/ server.body.table.rows = <<>>
    \/ /\ input.method = "upload"
       /\ \/ input.ext \notin {".csv", ".xlsx", ".xls"}
          \/ input.content.kind \in {"garbage", "empty"}
          \/ input.content.table.rows = <<>>
    \/ /\ input.method = "sample"
       /\ input.content.kind = "missing"

C7_LoadFailureEndsRun ==
    /\ get_requests <= 1
    /\ pc \in Loading => ENABLED Next
    /\ (pc \in Ended /\ FailingLoad) => LoadFailure
    /\ LoadFailure =>
          /\ HasError(page)
          /\ marks_column = ""
          /\ df = original
          /\ ~csv_data.written /\ ~stats.shown /\ ~csv.written /\ ~tally.shown
          /\ ENABLED Rerun

\* after an oversized download failed, a later load from a URL was graded
C7_Witness ==
    /\ failed_before
    /\ pc = "done"
    /\ input.method = "url"
    /\ tally.shown

\* C8: for every dataset that passes validation, whatever its column names,
\* the exported table has one row per input row, every original column with
\* its original values, and one appended Grade column holding assign_grade of
\* the row's mark under the current boundaries.
ExportKeepsOriginal(export) ==
    export.written =>
        /\ Len(export.rows) = original.nrows
        /\ export.header = Append(original.columns, "Grade")
        /\ \A i \in 1..original.nrows :
              /\ SubSeq(export.rows[i], 1, Len(original.columns)) = to_csv(original).rows[i]
              /\ export.rows[i][Len(export.header)]
                    = assign_grade(original.data[marks_column][i], boundaries)

C8_ExportKeepsOriginal == ExportKeepsOriginal(csv_data) /\ ExportKeepsOriginal(csv)

\* C9: the grade tally has exactly nine entries in the order A, A-, B, B-, C,
\* C-, D, E, F; a grade without members has count 0 and percentage 0.00; the
\* nine counts sum to the number of rows of the classified dataset, and the
\* pass count plus the fail count is that number too.
RECURSIVE SumCounts(_, _)
SumCounts(rows, i) == IF i > Len(rows) THEN 0 ELSE rows[i].Count + SumCounts(rows, i + 1)

C9_TallyComplete ==
    tally.shown =>
        /\ Len(tally.grade_df) = 9
        /\ [i \in 1..Len(tally.grade_df) |-> tally.grade_df[i].Grade] = AllGrades
        /\ \A i \in DOMAIN tally.grade_df :
              LET row == tally.grade_df[i]
              IN  /\ row.Count = Cardinality({j \in 1..original.nrows :
                        assign_grade(original.data[marks_column][j], boundaries) = row.Grade})
                  /\ row.Count = 0 => row.Percentage = 0
        /\ SumCounts(tally.grade_df, 1) = original.nrows
        /\ tally.pass_count + tally.fail_count = original.nrows
        /\ tally.fail_count = tally.grade_df[9].Count

\* three rows, none of them graded D: D is listed with count 0 and 0.00
C9_Witness ==
    /\ pc = "done"
    /\ original.nrows = 3
    /\ tally.grade_df[7] = [Grade |-> "D", Count |-> 0, Percentage |-> 0]
    /\ tally.fail_count = 1
    /\ tally.pass_count = 2

\* the dataset of the example, graded under the default boundaries
ExampleGraded ==
    /\ Graded
    /\ boundaries = DefaultBoundaries
    /\ marks_column = "Marks"
    /\ original.nrows = 3
    /\ original.data["Marks"] = <<Num(85), Num(92), Num(78)>>

\* C10 as stated: with the default boundaries the marks 85, 92 and 78 are
\* graded B, A and B.
C10_ExampleAsStated == ExampleGraded => Grades(df) = <<"B", "A", "B">>

\* C10: with the default boundaries (A 90, A- 80, B 70, B- 60, C 50, C- 40,
\* D 30, E 20) the marks 85, 92 and 78 are graded A-, A and B.
C10_ExampleGrades == ExampleGraded => Grades(df) = <<"A-", "A", "B">>

\* the example, loaded as the sample data, graded and tallied
C10_Witness ==
    /\ ExampleGraded
    /\ pc = "done"
    /\ input.method = "sample"
    /\ Grades(df) = <<"A-", "A", "B">>

---------------------------------------------------------------------------
(* Monotonicity of assign_grade (SpecGrade) *)

\* the rank of a grade in the order F < E < D < C- < C < B- < B < A- < A
Rank(g) == CHOOSE i \in 0..8 : <<"F", "E", "D", "C-", "C", "B-", "B", "A-", "A">>[i + 1] = g

\* C11: for fixed strictly descending boundaries and any two numeric marks
\* m1 <= m2, the grade of m2 is never strictly lower in the rank order
\* F < E < D < C- < C < B- < B < A- < A than the grade of m1.  m1 is the mark
\* that has been graded, m2 any other mark graded with the same boundaries.
C11_Monotone ==
    (pc = "graded" /\ StrictlyDescending(boundaries) /\ IsNum(mark))
        => \A m2 \in MarkInputs :
              (IsNum(m2) /\ mark.v <= m2.v)
                  => Rank(grade) <= Rank(assign_grade(m2, boundaries))

\* two marks graded differently with the A slider moved to 100: 99 is graded
\* A-, and the higher mark 100 is graded A
C11_Witness ==
    /\ pc = "graded"
    /\ StrictlyDescending(boundaries)
    /\ boundaries["A"] = 100
    /\ mark = Num(99) /\ grade = "A-"
    /\ Num(100) \in MarkInputs
    /\ assign_grade(Num(100), boundaries) = "A"
    /\ Rank(grade) < Rank("A")

---------------------------------------------------------------------------
(* The HEAD size pre-check of load_file_from_url (SpecLoad) *)

\* C12: when the HEAD response declares a Content-Length greater than 50 MB,
\* load_file_from_url fails with the 'File is too large' error and issues no
\* GET; only a failure of the HEAD request itself lets the load go on with
\* the GET.
C12_HeadPrecheck ==
    (pc # "head" /\ server.head_ok /\ server.content_length > 50 * 1024 * 1024)
        => /\ get_requests = 0
           /\ pc = "url_raised"
           /\ raised = "Failed to load file: " \o TooLargeError

---------------------------------------------------------------------------
(* Rows with a missing mark (Spec) *)

\* the rows of the loaded dataset whose mark is missing
MissingRows == {i \in 1..original.nrows : IsNaN(original.data[marks_column][i])}

\* C13: a row whose mark is missing (NaN) in a column that passed validation
\* is neither dropped nor left ungraded nor an error: validation reports no
\* error and grading raises nothing for it and keeps every row, the row is graded F whatever the boundaries
\* are, it is counted in the F row of the tally and in the fail count, and
\* the 'Total Students' statistic counts only the rows whose mark is not
\* missing, so that the tally total exceeds it by the number of such rows.
C13_MissingMarkGradedF ==
    /\ (pc = "tab1" /\ MissingRows # {}) => (raised = "" /\ errors = <<>>)
    /\ Graded =>
          /\ df.nrows = original.nrows
          /\ \A i \in MissingRows : df.data["Grade"][i] = Str("F")
    /\ stats.shown =>
          stats.total_students = original.nrows - Cardinality(MissingRows)
    /\ tally.shown =>
          /\ tally.grade_df[9].Grade = "F"
          /\ tally.grade_df[9].Count >= Cardinality(MissingRows)
          /\ tally.fail_count >= Cardinality(MissingRows)
          /\ SumCounts(tally.grade_df, 1) = stats.total_students + Cardinality(MissingRows)

\* a run that has tallied a dataset of two rows, one mark 85 and one missing
\* mark, with the E slider at 0: one F, one fail, and one student in the
\* statistics
C13_Witness ==
    /\ pc = "done"
    /\ boundaries["E"] = 0
    /\ original.nrows = 2
    /\ Cardinality(MissingRows) = 1
    /\ tally.grade_df[9].Count = 1
    /\ tally.fail_count = 1
    /\ stats.total_students = 1
    /\ SumCounts(tally.grade_df, 1) = 2

=============================================================================
